---- MODULE Spec2Model ----
(***************************************************************************)
(* Model of src/main.py: the GCP budget-alert relay.                       *)
(*                                                                         *)
(* The module body (lines 12-29) runs once at cold start and resolves      *)
(* TEAMS_WEBHOOK_URL from the secret store.  process_budget_alert (lines   *)
(* 32-115) runs once per Pub/Sub event: guard, decode, build the alert     *)
(* sections, post them to the webhook, and log-and-re-raise any exception. *)
(*                                                                         *)
(* Python values are modelled by records of one shape per kind so that     *)
(* they can be compared: a JSON value is [t, n, s] (type tag, number in    *)
(* thousandths, string), an exception is the name of its class, None is    *)
(* the string "<None>".                                                    *)
(***************************************************************************)
EXTENDS Integers, Sequences, FiniteSets, TLC

VARIABLES
    pc,                 \* where the process is: cold start or a handler step
    PROJECT_ID,         \* os.environ.get("GCP_PROJECT_ID")
    SECRET_ID,          \* os.environ.get("SECRET_ID")
    store,              \* how the secret store answers this process
    TEAMS_WEBHOOK_URL,  \* the module-level global
    urlWrites,          \* number of assignments to TEAMS_WEBHOOK_URL so far
    cloudevent,         \* the event of the current (or last) invocation
    budget_message,     \* local: the decoded inner JSON
    alert_sections,     \* local: the sections built so far
    exc,                \* the exception in flight, or None
    posts,              \* requests.post calls made by the current invocation
    response,           \* what the webhook answered to the last post
    teams_payload,      \* the JSON body of the last post
    outcome,            \* how the current (or last) invocation ended
    invocations,        \* invocations started so far
    prev                \* the previous invocation, as the platform saw it

vars == <<pc, PROJECT_ID, SECRET_ID, store, TEAMS_WEBHOOK_URL, urlWrites,
          cloudevent, budget_message, alert_sections, exc, posts, response,
          teams_payload, outcome, invocations, prev>>

\* ------------------------------------------------------------------ bounds

\* Invocations the platform makes in one run of the model.
MaxInvocations == 3

\* ---------------------------------------------------------- Python values

None == "<None>"
Unbound == "<unbound>"

\* Python truthiness of a str-or-None (os.environ.get, the decoded secret).
TruthyStr(s) == s # None /\ s # Unbound /\ s # ""

\* JSON values; numbers are fixed-point, in thousandths.
Absent == [t |-> "absent", n |-> 0, s |-> ""]
Num(n) == [t |-> "num", n |-> n, s |-> ""]
Str(s) == [t |-> "str", n |-> 0, s |-> s]

\* Python truthiness of what dict.get returned (None when the key is absent).
Truthy(v) ==
    CASE v.t = "absent" -> FALSE
      [] v.t = "num" -> v.n # 0
      [] v.t = "str" -> v.s # ""

\* dict.get(key, default): the default only replaces an absent key.
Get(v, default) == IF v.t = "absent" THEN default ELSE v

\* ------------------------------------------------------------- cold start

ProjectIds == {None, "", "my-project"}
SecretIds == {None, "", "teams-webhook"}

\* The secret store, as this process meets it: the client cannot be built,
\* the access call fails, or it returns a payload (bytes).
Payloads == {[utf8 |-> FALSE, text |-> ""],
             [utf8 |-> TRUE, text |-> ""],
             [utf8 |-> TRUE, text |-> "https://teams.example/hook"]}
NoPayloadBytes == [utf8 |-> TRUE, text |-> ""]
Stores == {[client |-> "DefaultCredentialsError", access |-> "ok", payload |-> NoPayloadBytes],
           [client |-> "ok", access |-> "PermissionDenied", payload |-> NoPayloadBytes]}
          \cup {[client |-> "ok", access |-> "ok", payload |-> p] : p \in Payloads}

\* bytes.decode("UTF-8")
Utf8Decode(bytes) ==
    IF bytes.utf8 THEN [exc |-> None, text |-> bytes.text]
    ELSE [exc |-> "UnicodeDecodeError", text |-> ""]

\* The guard of line 19.
EnvMissing(project, secret) == ~TruthyStr(project) \/ ~TruthyStr(secret)

\* The try block of the module body, lines 13-25: the exception it raises
\* (None when it runs to the end) and the value line 25 assigns.
InitTry(project, secret, st) ==
    IF st.client # "ok" THEN [exc |-> st.client, url |-> Unbound]
    ELSE IF EnvMissing(project, secret) THEN [exc |-> "ValueError", url |-> Unbound]
    ELSE IF st.access # "ok" THEN [exc |-> st.access, url |-> Unbound]
    ELSE LET d == Utf8Decode(st.payload)
         IN  IF d.exc # None THEN [exc |-> d.exc, url |-> Unbound]
             ELSE [exc |-> None, url |-> d.text]

\* `except Exception` (line 27): every exception raised here is a subclass of
\* Exception.
ExceptionClasses == {"ValueError", "DefaultCredentialsError", "PermissionDenied",
                     "UnicodeDecodeError", "JSONDecodeError", "KeyError",
                     "binascii.Error", "AttributeError", "TypeError",
                     "ConnectionError", "HTTPError"}
\* (A narrower handler, `except ValueError`, would let the others through.)
CatchesValueErrorOnly(e) == e = "ValueError"
CatchesException(e) == e \in ExceptionClasses

\* ------------------------------------------------------------ the event

\* A BudgetMessage: the inner JSON object.  Every field may be absent.
Thresholds == {Absent, Num(0), Num(750), Str("0.9")}
Costs == {Num(150000), Str("n/a")}
Names == {Absent, Str("Eng Budget")}
BudgetMessages ==
    {[costAmount |-> c, budgetAmount |-> Num(200000), currencyCode |-> Absent,
      budgetDisplayName |-> nm, alertThresholdExceeded |-> a,
      forecastThresholdExceeded |-> f] :
        c \in Costs, nm \in Names, a \in Thresholds, f \in Thresholds}
EmptyMessage ==
    [costAmount |-> Absent, budgetAmount |-> Absent, currencyCode |-> Absent,
     budgetDisplayName |-> Absent, alertThresholdExceeded |-> Absent,
     forecastThresholdExceeded |-> Absent]

\* The form of the string in message.data: whether it holds characters
\* outside the base64 alphabet, and whether its alphabet characters make
\* whole, correctly padded quanta.
CleanData == [nonAlphabet |-> FALSE, padded |-> TRUE]
DataForms == {[nonAlphabet |-> x, padded |-> p] : x \in BOOLEAN, p \in BOOLEAN}

\* cloudevent.data.  envelope: what the outer bytes are; data: the form of
\* message.data; body: what the bytes that message.data encodes are; msg:
\* the object they hold when body = "object".
EnvelopeFailures == {"not_utf8", "not_json", "no_message", "no_data"}
BodyFailures == {"not_utf8", "not_json", "not_object"}
Events ==
    {[envelope |-> k, data |-> CleanData, body |-> "not_json", msg |-> EmptyMessage] :
        k \in EnvelopeFailures}
    \cup {[envelope |-> "ok", data |-> d, body |-> "not_json", msg |-> EmptyMessage] :
        d \in {f \in DataForms : ~f.padded}}
    \cup {[envelope |-> "ok", data |-> d, body |-> b, msg |-> EmptyMessage] :
        d \in {f \in DataForms : f.padded}, b \in BodyFailures}
    \cup {[envelope |-> "ok", data |-> d, body |-> "object", msg |-> m] :
        d \in {f \in DataForms : f.padded}, m \in BudgetMessages}
NoEvent == [envelope |-> "not_json", data |-> CleanData, body |-> "not_json",
            msg |-> EmptyMessage]

\* base64.b64decode(s) with validate=False: characters outside the alphabet
\* are discarded, then the padding of what is left is checked.
B64Decode(d, body) ==
    IF ~d.padded THEN [exc |-> "binascii.Error", bytes |-> "not_utf8"]
    ELSE [exc |-> None, bytes |-> body]

\* Lines 45-51: the exception raised (None when decoding succeeds) and the
\* value bound to budget_message.
NoMessage == [isdict |-> FALSE, fields |-> EmptyMessage]
DecodeEvent(e) ==
    IF e.envelope = "not_utf8" THEN [exc |-> "UnicodeDecodeError", value |-> NoMessage]
    ELSE IF e.envelope = "not_json" THEN [exc |-> "JSONDecodeError", value |-> NoMessage]
    ELSE IF e.envelope \in {"no_message", "no_data"} THEN [exc |-> "KeyError", value |-> NoMessage]
    ELSE LET b == B64Decode(e.data, e.body)
         IN  IF b.exc # None THEN [exc |-> b.exc, value |-> NoMessage]
             ELSE IF b.bytes = "not_utf8" THEN [exc |-> "UnicodeDecodeError", value |-> NoMessage]
             ELSE IF b.bytes = "not_json" THEN [exc |-> "JSONDecodeError", value |-> NoMessage]
             ELSE IF b.bytes = "not_object" THEN [exc |-> None, value |-> NoMessage]
             ELSE [exc |-> None, value |-> [isdict |-> TRUE, fields |-> e.msg]]

\* ------------------------------------------------------------ formatting

Pad(n, width) ==
    IF width = 3 /\ n < 10 THEN "00" \o ToString(n)
    ELSE IF (width = 3 /\ n < 100) \/ (width = 2 /\ n < 10) THEN "0" \o ToString(n)
    ELSE ToString(n)

\* The "," option of the format spec: groups of three digits.
RECURSIVE Grouped(_)
Grouped(n) ==
    IF n < 1000 THEN ToString(n)
    ELSE Grouped(n \div 1000) \o "," \o Pad(n % 1000, 3)

\* round-half-even of n / unit, for n >= 0.
RoundHalfEven(n, unit) ==
    LET q == n \div unit
        r == n % unit
    IN  IF 2 * r > unit \/ (2 * r = unit /\ q % 2 = 1) THEN q + 1 ELSE q

\* format(v, ",.0f") and format(v, ",.2f") of a number in thousandths; a str
\* has no format code "f".  Rounding is exact here; the inputs below have no
\* ties, where binary floating point could differ.
FormatF(v, decimals) ==
    IF v.t # "num" THEN [exc |-> "ValueError", text |-> ""]
    ELSE IF decimals = 0
         THEN [exc |-> None, text |-> Grouped(RoundHalfEven(v.n, 1000))]
         ELSE LET cents == RoundHalfEven(v.n, 10)
              IN  [exc |-> None,
                   text |-> Grouped(cents \div 100) \o "." \o Pad(cents % 100, 2)]

\* raw * 100 (lines 67 and 83): a number is scaled, a str is repeated.
Times100(v) == IF v.t = "num" THEN Num(v.n * 100) ELSE v

\* ------------------------------------------------------ building sections

\* One section (lines 68-78 and 84-94).  kind is "actual" or "forecast".
\* The f-strings are evaluated in source order, so the first formatting
\* error is the one raised.  The emoji of the two titles are left out.
Section(kind, name, cost, budget, currency, raw) ==
    LET pct == FormatF(Times100(raw), 0)
        c == FormatF(cost, 2)
        b == FormatF(budget, 2)
        label == IF kind = "actual" THEN "Actual Spend" ELSE "Forecasted Spend"
        title == IF kind = "actual"
                 THEN "**Budget ALERT (Actual Spend): " \o name.s \o "**"
                 ELSE "**Budget WARNING (Forecasted Spend): " \o name.s \o "**"
        subtitle == IF kind = "actual"
                    THEN "You have spent " \o pct.text \o "% of your budget."
                    ELSE "You are *forecasted* to spend " \o pct.text \o "% of your budget."
    IN  IF pct.exc # None THEN [exc |-> pct.exc, section |-> <<>>]
        ELSE IF c.exc # None THEN [exc |-> c.exc, section |-> <<>>]
        ELSE IF b.exc # None THEN [exc |-> b.exc, section |-> <<>>]
        ELSE [exc |-> None,
              section |-> <<[kind |-> kind,
                             activityTitle |-> title,
                             activitySubtitle |-> subtitle,
                             facts |-> << <<"Budget Name:", name.s>>,
                                          <<"Current Cost:", c.text \o " " \o currency.s>>,
                                          <<"Budget Amount:", b.text \o " " \o currency.s>>,
                                          <<"Triggered Threshold:",
                                            pct.text \o "% (" \o label \o ")">> >>,
                             markdown |-> TRUE]>>]

\* Line 66 and line 82: the two independent `if`s.  (With `elif` at line 82
\* the forecast section would need the actual threshold to be falsy.)
BuildsActual(actual_raw, forecast_raw) == Truthy(actual_raw)
BuildsForecastElif(actual_raw, forecast_raw) == ~Truthy(actual_raw) /\ Truthy(forecast_raw)
BuildsForecast(actual_raw, forecast_raw) == Truthy(forecast_raw)

\* Lines 63, 79 and 95: the list starts empty, the actual section is appended
\* first, the forecast section after it.  (The other order is the variant.)
AppendedForecastFirst(actual, forecast) == forecast \o actual
Appended(actual, forecast) == actual \o forecast

\* Lines 54-95: the exception raised (None when none is) and alert_sections.
BuildSections(m) ==
    IF ~m.isdict THEN [exc |-> "AttributeError", sections |-> <<>>]
    ELSE
    LET f == m.fields
        cost == Get(f.costAmount, Num(0))
        budget == Get(f.budgetAmount, Num(0))
        currency == Get(f.currencyCode, Str("USD"))
        name == Get(f.budgetDisplayName, Str("Unnamed Budget"))
        actual_percent_raw == f.alertThresholdExceeded
        forecast_percent_raw == f.forecastThresholdExceeded
        actual == IF BuildsActual(actual_percent_raw, forecast_percent_raw)
                  THEN Section("actual", name, cost, budget, currency, actual_percent_raw)
                  ELSE [exc |-> None, section |-> <<>>]
        forecast == IF BuildsForecast(actual_percent_raw, forecast_percent_raw)
                    THEN Section("forecast", name, cost, budget, currency, forecast_percent_raw)
                    ELSE [exc |-> None, section |-> <<>>]
    IN  IF actual.exc # None THEN [exc |-> actual.exc, sections |-> <<>>]
        ELSE IF forecast.exc # None THEN [exc |-> forecast.exc, sections |-> <<>>]
        ELSE [exc |-> None, sections |-> Appended(actual.section, forecast.section)]

\* Lines 99-105.
TeamsPayload(name, sections) ==
    [type |-> "MessageCard", context |-> "http://schema.org/extensions",
     themeColor |-> "FF0000", summary |-> "GCP Budget Alert for " \o name.s,
     sections |-> sections]
NoPayload == [type |-> "", context |-> "", themeColor |-> "", summary |-> "",
              sections |-> <<>>]

\* --------------------------------------------------------------- webhook

\* What requests.post comes back with: a transport error, or a response.
Responses == {[error |-> TRUE, status_code |-> 0]}
             \cup {[error |-> FALSE, status_code |-> c] :
                     c \in {101, 200, 204, 304, 404, 500}}
NoResponse == [error |-> FALSE, status_code |-> 0]

\* Response.raise_for_status(): HTTPError for a 4xx or 5xx status.
RaiseForStatus(r) == 400 <= r.status_code /\ r.status_code < 600

\* ------------------------------------------------------------ the process

NoPrev == [outcome |-> None, posts |-> 0, same |-> FALSE]

Init ==
    /\ pc = "cold_start"
    /\ PROJECT_ID \in ProjectIds
    /\ SECRET_ID \in SecretIds
    /\ store \in Stores
    /\ TEAMS_WEBHOOK_URL = Unbound
    /\ urlWrites = 0
    /\ cloudevent = NoEvent
    /\ budget_message = NoMessage
    /\ alert_sections = <<>>
    /\ exc = None
    /\ posts = 0
    /\ response = NoResponse
    /\ teams_payload = NoPayload
    /\ outcome = None
    /\ invocations = 0
    /\ prev = NoPrev

\* Lines 12-25: the try block of the module body.
ColdStartTry ==
    /\ pc = "cold_start"
    /\ LET r == InitTry(PROJECT_ID, SECRET_ID, store)
       IN  IF r.exc = None
           THEN /\ TEAMS_WEBHOOK_URL' = r.url
                /\ urlWrites' = urlWrites + 1
                /\ pc' = "idle"
                /\ exc' = exc
           ELSE /\ exc' = r.exc
                /\ pc' = "cold_start_except"
                /\ UNCHANGED <<TEAMS_WEBHOOK_URL, urlWrites>>
    /\ UNCHANGED <<PROJECT_ID, SECRET_ID, store, cloudevent, budget_message,
                   alert_sections, posts, response, teams_payload, outcome,
                   invocations, prev>>

\* Lines 27-29: the handler of the module body's try.  An exception it does
\* not catch leaves the module and ends the process.
ColdStartExcept ==
    /\ pc = "cold_start_except"
    /\ IF CatchesException(exc)
       THEN /\ TEAMS_WEBHOOK_URL' = None
            /\ urlWrites' = urlWrites + 1
            /\ exc' = None
            /\ pc' = "idle"
       ELSE /\ pc' = "crashed"
            /\ UNCHANGED <<TEAMS_WEBHOOK_URL, urlWrites, exc>>
    /\ UNCHANGED <<PROJECT_ID, SECRET_ID, store, cloudevent, budget_message,
                   alert_sections, posts, response, teams_payload, outcome,
                   invocations, prev>>

\* The platform calls process_budget_alert(cloudevent) (line 32) on the
\* loaded module.
Invoke(e) ==
    /\ pc = "idle"
    /\ invocations < MaxInvocations
    /\ cloudevent' = e
    /\ prev' = [outcome |-> outcome, posts |-> posts,
                same |-> (invocations > 0 /\ e = cloudevent)]
    /\ invocations' = invocations + 1
    /\ budget_message' = NoMessage
    /\ alert_sections' = <<>>
    /\ exc' = None
    /\ posts' = 0
    /\ response' = NoResponse
    /\ teams_payload' = NoPayload
    /\ outcome' = "running"
    /\ pc' = "guard"
    /\ UNCHANGED <<PROJECT_ID, SECRET_ID, store, TEAMS_WEBHOOK_URL, urlWrites>>

\* Line 38: `not TEAMS_WEBHOOK_URL`, true of None and of the empty string.
\* (`TEAMS_WEBHOOK_URL == ""` would let None through.)
HaltsOnEmptyOnly == TEAMS_WEBHOOK_URL = ""
Halts == ~TruthyStr(TEAMS_WEBHOOK_URL)

\* Lines 38-40.
Guard ==
    /\ pc = "guard"
    /\ IF Halts
       THEN /\ outcome' = "returned"
            /\ pc' = "idle"
       ELSE /\ pc' = "decode"
            /\ outcome' = outcome
    /\ UNCHANGED <<PROJECT_ID, SECRET_ID, store, TEAMS_WEBHOOK_URL, urlWrites,
                   cloudevent, budget_message, alert_sections, exc, posts,
                   response, teams_payload, invocations, prev>>

\* Lines 45-51.
Decode ==
    /\ pc = "decode"
    /\ LET r == DecodeEvent(cloudevent)
       IN  IF r.exc = None
           THEN /\ budget_message' = r.value
                /\ pc' = "build"
                /\ exc' = exc
           ELSE /\ exc' = r.exc
                /\ pc' = "except"
                /\ budget_message' = budget_message
    /\ UNCHANGED <<PROJECT_ID, SECRET_ID, store, TEAMS_WEBHOOK_URL, urlWrites,
                   cloudevent, alert_sections, posts, response, teams_payload,
                   outcome, invocations, prev>>

\* Lines 54-95.
Build ==
    /\ pc = "build"
    /\ LET r == BuildSections(budget_message)
       IN  IF r.exc = None
           THEN /\ alert_sections' = r.sections
                /\ pc' = "send"
                /\ exc' = exc
           ELSE /\ exc' = r.exc
                /\ pc' = "except"
                /\ alert_sections' = alert_sections
    /\ UNCHANGED <<PROJECT_ID, SECRET_ID, store, TEAMS_WEBHOOK_URL, urlWrites,
                   cloudevent, budget_message, posts, response, teams_payload,
                   outcome, invocations, prev>>

\* Line 98: `if alert_sections`.  (Two variants: no test at all, and a test
\* that also skips an event the previous invocation already posted.)
ShouldSendAlways == TRUE
ShouldSendOnce == alert_sections # <<>> /\ ~(prev.same /\ prev.posts > 0)
ShouldSend == alert_sections # <<>>

\* Lines 98-111: nothing to send, or one requests.post and raise_for_status.
Send ==
    /\ pc = "send"
    /\ IF ~ShouldSend
       THEN /\ outcome' = "returned"
            /\ pc' = "idle"
            /\ UNCHANGED <<exc, posts, response, teams_payload>>
       ELSE \E r \in Responses :
            /\ teams_payload' =
                 TeamsPayload(Get(budget_message.fields.budgetDisplayName,
                                  Str("Unnamed Budget")), alert_sections)
            /\ posts' = posts + 1
            /\ response' = r
            /\ IF r.error
               THEN /\ exc' = "ConnectionError"
                    /\ pc' = "except"
                    /\ outcome' = outcome
               ELSE IF RaiseForStatus(r)
               THEN /\ exc' = "HTTPError"
                    /\ pc' = "except"
                    /\ outcome' = outcome
               ELSE /\ outcome' = "returned"
                    /\ pc' = "idle"
                    /\ exc' = exc
    /\ UNCHANGED <<PROJECT_ID, SECRET_ID, store, TEAMS_WEBHOOK_URL, urlWrites,
                   cloudevent, budget_message, alert_sections, invocations, prev>>

\* Lines 113-115 with two plausible slips: the handler disables the relay
\* after a failure, or posts again after a failed delivery.
ExceptDisables ==
    /\ pc = "except"
    /\ outcome' = "raised"
    /\ pc' = "idle"
    /\ TEAMS_WEBHOOK_URL' = None
    /\ urlWrites' = urlWrites + 1
    /\ UNCHANGED <<PROJECT_ID, SECRET_ID, store, cloudevent, budget_message,
                   alert_sections, exc, posts, response, teams_payload,
                   invocations, prev>>
ExceptRetries ==
    /\ pc = "except"
    /\ IF exc \in {"ConnectionError", "HTTPError"} /\ posts < 2
       THEN /\ pc' = "send"
            /\ outcome' = outcome
       ELSE /\ outcome' = "raised"
            /\ pc' = "idle"
    /\ UNCHANGED <<PROJECT_ID, SECRET_ID, store, TEAMS_WEBHOOK_URL, urlWrites,
                   cloudevent, budget_message, alert_sections, exc, posts,
                   response, teams_payload, invocations, prev>>

\* Lines 113-115: log the exception and raise it again.
Except ==
    /\ pc = "except"
    /\ outcome' = "raised"
    /\ pc' = "idle"
    /\ UNCHANGED <<PROJECT_ID, SECRET_ID, store, TEAMS_WEBHOOK_URL, urlWrites,
                   cloudevent, budget_message, alert_sections, exc, posts,
                   response, teams_payload, invocations, prev>>

Next ==
    \/ ColdStartTry
    \/ ColdStartExcept
    \/ \E e \in Events : Invoke(e)
    \/ Guard
    \/ Decode
    \/ Build
    \/ Send
    \/ Except

Spec == Init /\ [][Next]_vars

\* ------------------------------------------------------------ vocabulary

ColdStartPcs == {"cold_start", "cold_start_except"}

\* An invocation has run to its end.
Done == pc = "idle" /\ invocations > 0

\* The webhook URL was resolved to a usable value.
Enabled == TruthyStr(TEAMS_WEBHOOK_URL)

\* The thresholds of the decoded message.
ActualRaw == budget_message.fields.alertThresholdExceeded
ForecastRaw == budget_message.fields.forecastThresholdExceeded
TruthyCount == (IF Truthy(ActualRaw) THEN 1 ELSE 0) + (IF Truthy(ForecastRaw) THEN 1 ELSE 0)

\* Lines 54-95 ran to the end in this invocation.
SectionsBuilt ==
    \/ pc = "send"
    \/ /\ Done
       /\ budget_message.isdict
       /\ exc \in {None, "ConnectionError", "HTTPError"}

\* message.data is base64 as RFC 4648 defines it.
StrictBase64(d) == ~d.nonAlphabet /\ d.padded

\* The cases of an event that "cannot be decoded": an outer payload that is
\* not UTF-8 or not JSON, a missing key, invalid base64, an inner text that
\* is not UTF-8 or not JSON.
Undecodable(e) ==
    \/ e.envelope # "ok"
    \/ ~StrictBase64(e.data)
    \/ e.body \in {"not_utf8", "not_json"}

\* A valid event: a well-formed envelope around a BudgetMessage whose
\* amounts and thresholds are numbers (or absent).
NumberOrAbsent(v) == v.t \in {"num", "absent"}
ValidEvent(e) ==
    /\ e.envelope = "ok"
    /\ StrictBase64(e.data)
    /\ e.body = "object"
    /\ NumberOrAbsent(e.msg.costAmount)
    /\ NumberOrAbsent(e.msg.budgetAmount)
    /\ NumberOrAbsent(e.msg.alertThresholdExceeded)
    /\ NumberOrAbsent(e.msg.forecastThresholdExceeded)
CarriesThreshold(e) ==
    Truthy(e.msg.alertThresholdExceeded) \/ Truthy(e.msg.forecastThresholdExceeded)

Is2xx(r) == ~r.error /\ 200 <= r.status_code /\ r.status_code < 300

\* ----------------------------------------------------------------- claims

\* C1: once cold start has left the webhook URL absent, every invocation,
\* whatever its event, returns without raising and never posts: it never
\* gets past the guard.
C1_DisabledIsNoOp ==
    (pc \notin ColdStartPcs /\ TEAMS_WEBHOOK_URL = None) =>
        /\ pc \in {"idle", "guard"}
        /\ posts = 0
        /\ exc = None
        /\ outcome # "raised"
        /\ (Done => outcome = "returned")

\* C1's case: a disabled process has handled a malformed event and an event
\* with a threshold, and returned from the last.
C1_Witness ==
    /\ Done
    /\ TEAMS_WEBHOOK_URL = None
    /\ invocations >= 2
    /\ cloudevent.envelope = "ok"
    /\ CarriesThreshold(cloudevent)
    /\ outcome = "returned"
    /\ prev.outcome = "returned"

\* C2: cold start never lets an exception leave the module; it ends with the
\* webhook URL set to the fetched text when both identifiers are non-empty
\* and fetch and decode succeed, and with the URL absent (None) otherwise.
C2_InitNeverPropagates ==
    /\ pc # "crashed"
    /\ (pc \notin ColdStartPcs =>
          IF /\ PROJECT_ID \notin {None, ""}
             /\ SECRET_ID \notin {None, ""}
             /\ store.client = "ok"
             /\ store.access = "ok"
             /\ store.payload.utf8
          THEN TEAMS_WEBHOOK_URL = store.payload.text
          ELSE TEAMS_WEBHOOK_URL = None)

\* C2's case: a store that would have answered, an empty secret identifier,
\* and cold start over with the URL absent.
C2_Witness ==
    /\ pc = "idle"
    /\ SECRET_ID = ""
    /\ PROJECT_ID = "my-project"
    /\ store.client = "ok" /\ store.access = "ok" /\ store.payload.utf8
    /\ TEAMS_WEBHOOK_URL = None

\* C3: a decoded BudgetMessage whose thresholds are both absent or zero is
\* never posted and its invocation returns without raising; a post is only
\* ever made for a message with a truthy threshold.
C3_NoThresholdNoPost ==
    /\ (posts > 0 => budget_message.isdict /\ TruthyCount > 0)
    /\ (budget_message.isdict /\ TruthyCount = 0 =>
          /\ posts = 0
          /\ exc = None
          /\ (Done => outcome = "returned"))

\* C3's case: an enabled process has handled a message with a zero and an
\* absent threshold.
C3_Witness ==
    /\ Done
    /\ Enabled
    /\ budget_message.isdict
    /\ ActualRaw = Num(0)
    /\ ForecastRaw = Absent
    /\ outcome = "returned"
    /\ posts = 0

\* C4 as claimed: in the enabled state an event that cannot be decoded makes
\* the invocation raise, without a post.
C4_UndecodableRaises ==
    (Done /\ Enabled /\ Undecodable(cloudevent)) =>
        (outcome = "raised" /\ posts = 0)

\* C5 as claimed: an invocation that posted returns normally exactly when
\* the response is 2xx, and raises for every other status and for a
\* transport error.
C5_Only2xxSucceeds ==
    (Done /\ posts > 0) => (outcome = "returned" <=> Is2xx(response))

\* C6: when both thresholds are truthy, the posted payload has exactly two
\* sections, the actual one first and the forecast one second.
C6_ActualBeforeForecast ==
    (posts > 0 /\ Truthy(ActualRaw) /\ Truthy(ForecastRaw)) =>
        /\ Len(teams_payload.sections) = 2
        /\ teams_payload.sections[1].kind = "actual"
        /\ teams_payload.sections[2].kind = "forecast"

\* C6's case: a message with both thresholds was posted.
C6_Witness ==
    /\ Done
    /\ posts = 1
    /\ Truthy(ActualRaw)
    /\ Truthy(ForecastRaw)
    /\ outcome = "returned"

\* C7: the sections built are as many as the truthy thresholds; with only
\* alertThresholdExceeded truthy there is exactly one, the actual one.
C7_OneSectionPerThreshold ==
    SectionsBuilt =>
        /\ Len(alert_sections) = TruthyCount
        /\ (Truthy(ActualRaw) /\ ~Truthy(ForecastRaw) =>
              Len(alert_sections) = 1 /\ alert_sections[1].kind = "actual")
        /\ (Truthy(ActualRaw) => alert_sections[1].kind = "actual")

\* C7's case: the sections of a message with only the actual threshold.
C7_Witness ==
    /\ pc = "send"
    /\ ActualRaw = Num(750)
    /\ ForecastRaw = Num(0)
    /\ Len(alert_sections) = 1

C10_InvocationsIndependent ==
    [][/\ (pc \notin ColdStartPcs => (Enabled' <=> Enabled))
       /\ (/\ pc \notin ColdStartPcs
           /\ pc # "idle"
           /\ pc' = "idle"
           /\ Enabled
           /\ ValidEvent(cloudevent)
           /\ CarriesThreshold(cloudevent)
           => /\ posts' = 1
              /\ teams_payload'.sections # <<>>
              /\ (outcome' = "returned" <=>
                    ~response'.error /\ ~RaiseForStatus(response'))
              /\ (outcome' = "raised" <=>
                    response'.error \/ RaiseForStatus(response')))]_vars

\* C10's case: the same event as the invocation before, which posted and
\* raised a delivery error, is posted again and returns.
C10_Witness ==
    /\ Done
    /\ Enabled
    /\ invocations >= 2
    /\ prev.same
    /\ prev.posts = 1
    /\ prev.outcome = "raised"
    /\ posts = 1
    /\ outcome = "returned"

====
